---------------------------- MODULE Spec2Model ----------------------------
(***************************************************************************)
(* Model of the runc fuzz harnesses: FuzzInit, FuzzStateApi, FuzzFactory   *)
(* (package libcontainer) and Fuzz (package devices).                      *)
(*                                                                         *)
(* Every harness invocation is run by a worker.  A worker executes the     *)
(* statements of the harness one external call at a time, so that two      *)
(* workers can interleave on the shared filesystem.  The calls into        *)
(* go-fuzz-headers, the os package and runc are external: each one is a    *)
(* nondeterministic choice over the results its signature allows.          *)
(***************************************************************************)
EXTENDS Integers, Sequences, FiniteSets

VARIABLES
    fs,        \* the paths that exist on disk (files and directories)
    logLevel,  \* logrus' process-wide level
    inv        \* inv[w]: the invocation worker w is running (its locals)

vars == <<fs, logLevel, inv>>

----------------------------------------------------------------------------
(* Bounds of the model *)

\* a harness gets buffers of every length up to MaxExtra bytes past its minimum
MaxExtra == 1
\* GetInt yields an int in -MaxSel..MaxSel
MaxSel == 12
\* GetString yields a string of length 0..MaxStrLen
MaxStrLen == 6

----------------------------------------------------------------------------
(* Program constants *)

InitMinLen == 5
StateApiMinLen == 4
FactoryMinLen == 20
MinFieldLen == 5

PipePath == "pipe.txt"
ConsolePath == "consoleSocket.txt"
TestRoot == "/tmp/fuzzing"
FuzzRoot == "/tmp/fuzz-root"
FuzzDir == "/tmp/fuzz-root/fuzz"
StateJsonPath == "/tmp/fuzz-root/fuzz/state.json"

Harnesses == {"FuzzInit", "FuzzStateApi", "FuzzFactory", "Fuzz"}

\* the length below which a harness rejects its input (Fuzz has no check)
MinLen(h) ==
    CASE h = "FuzzInit" -> InitMinLen
      [] h = "FuzzStateApi" -> StateApiMinLen
      [] h = "FuzzFactory" -> FactoryMinLen
      [] OTHER -> 0

TooShortOffByOne(h, n) == n < MinLen(h) - 1

\* len(data) < minimum
TooShort(h, n) == n < MinLen(h)

----------------------------------------------------------------------------
(* The filesystem, as far as the harnesses touch it *)

\* the modelled paths below directory d
Below(d) ==
    CASE d = FuzzRoot -> {FuzzDir, StateJsonPath}
      [] d = FuzzDir -> {StateJsonPath}
      [] OTHER -> {}

\* the modelled directories above path p
Above(p) ==
    CASE p = StateJsonPath -> {FuzzRoot, FuzzDir}
      [] p = FuzzDir -> {FuzzRoot}
      [] OTHER -> {}

\* os.MkdirAll(p): p and its missing parents exist afterwards
MkdirAll(fsys, p) == fsys \cup {p} \cup Above(p)

\* os.OpenFile(p, O_RDWR|O_CREATE) can succeed only inside an existing directory
CanCreate(fsys, p) == Above(p) \subseteq fsys

\* os.RemoveAll(p): p and everything below it are gone afterwards
RemoveAll(fsys, p) == fsys \ ({p} \cup Below(p))

----------------------------------------------------------------------------
(* Inputs.  When one worker runs, the inputs range over the full bounds;   *)
(* when several run concurrently, over the boundary values only.           *)

Concurrent == Cardinality(DOMAIN inv) > 1

DataLens(h) ==
    IF Concurrent THEN {0, MinLen(h)} ELSE 0..(MinLen(h) + MaxExtra)

Ints == IF Concurrent THEN {0, 1, 4} ELSE (0 - MaxSel)..MaxSel

StrLens ==
    IF Concurrent THEN {MinFieldLen - 1, MinFieldLen} ELSE 0..MaxStrLen

\* the results of a call whose result the harness discards
Discarded == IF Concurrent THEN {TRUE} ELSE BOOLEAN

\* what GenerateStruct may leave in Config.Namespaces
GenNamespaces ==
    IF Concurrent THEN {<<>>}
    ELSE {<<>>, <<"NEWPID">>, <<"NEWUTS", "NEWNS">>}

\* what GenerateStruct may leave in Config.Cgroups.Parent ("nil": Cgroups == nil)
GenParents ==
    IF Concurrent THEN {"nil"} ELSE {"nil", "system.slice", "user.slice"}

----------------------------------------------------------------------------
(* Pure helpers of the harnesses *)

\* Go's remainder: truncated, with the sign of the dividend
GoRem(a, b) == IF a >= 0 THEN a % b ELSE 0 - ((0 - a) % b)

SelectNamespacesMountFirst(n) ==
    IF GoRem(n, 4) = 0 THEN <<"NEWNS">>
    ELSE IF GoRem(n, 3) = 0 THEN <<"NEWUTS">>
    ELSE <<>>

\* the namespaces FuzzStateApi assigns for selector n
SelectNamespaces(n) ==
    IF GoRem(n, 3) = 0 THEN <<"NEWUTS">>
    ELSE IF GoRem(n, 4) = 0 THEN <<"NEWNS">>
    ELSE <<>>

\* the cgroup driver newContainerWithName ends up with
Driver(parent) ==
    IF parent = "system.slice" THEN "SystemdCgroups" ELSE "Cgroupfs"

QueryOrderStatsFirst == <<"Stats", "State", "OCIState", "Processes">>

\* the container queries of FuzzStateApi, in the order of the calls
QueryOrder == <<"State", "Stats", "OCIState", "Processes">>

\* the extractions of FuzzFactory, in the order of the calls
FieldOrder == <<"ociVersion", "id", "status", "pid", "bundle">>

LenFilterAll(lens) ==
    /\ lens.ociVersion < MinFieldLen
    /\ lens.id < MinFieldLen
    /\ lens.bundle < MinFieldLen

\* len(ociVersion) < 5 || len(id) < 5 || len(bundle) < 5
LenFilter(lens) ==
    \/ lens.ociVersion < MinFieldLen
    \/ lens.id < MinFieldLen
    \/ lens.bundle < MinFieldLen

FactoryCleanupPathDir == FuzzDir

\* the path FuzzFactory's deferred os.RemoveAll removes
FactoryCleanupPath == StateJsonPath

SignalCreateInteresting(h, site) ==
    IF site = "done" \/ (h = "FuzzStateApi" /\ site = "Create") THEN 1
    ELSE IF h = "FuzzStateApi" /\ site = "GetString" THEN 0
    ELSE IF h = "FuzzFactory"
            /\ site \in {"GetString", "GetInt", "filter", "Marshal", "createFiles"}
         THEN 0
    ELSE -1

\* the value each return statement of a harness returns
Signal(h, site) ==
    IF site = "done" THEN 1
    ELSE IF h = "FuzzStateApi" /\ site \in {"GetString", "Create"} THEN 0
    ELSE IF h = "FuzzFactory"
            /\ site \in {"GetString", "GetInt", "filter", "Marshal", "createFiles"}
         THEN 0
    ELSE -1

----------------------------------------------------------------------------
(* An invocation *)

NoLens == [ociVersion |-> 0, id |-> 0, bundle |-> 0]

\* where harness h starts
FirstPc(h) == IF h = "Fuzz" THEN "getString1" ELSE "checkLen"

\* the locals of a fresh invocation of harness h on a buffer of length n
NewInvocation(h, n) ==
    [harness |-> h, pc |-> FirstPc(h), dataLen |-> n,
     defers |-> <<>>,      \* deferred calls, the last registered at the end
     ret |-> 0,            \* the signal, set once pc is "defer" or "returned"
     calls |-> <<>>,       \* the external calls made so far: <<call, succeeded>>
     created |-> {},       \* the paths this invocation brought into being
     namespaces |-> <<>>,  \* config.Namespaces
     parent |-> "nil",     \* config.Cgroups.Parent ("nil": config.Cgroups == nil)
     rootfs |-> "",        \* config.Rootfs
     ns |-> 0,             \* the namespace selector
     driver |-> "",        \* the cgroup driver the container was created with
     lens |-> NoLens]      \* len(ociVersion), len(id), len(bundle)

Idle == [NewInvocation("none", 0) EXCEPT !.pc = "idle"]

Init1 ==
    /\ fs = {}
    /\ logLevel = "InfoLevel"
    /\ inv = [w \in {"w1"} |-> Idle]

InitConc ==
    /\ fs = {}
    /\ logLevel = "InfoLevel"
    /\ inv = [w \in {"w1", "w2"} |-> Idle]

\* the locals after `return Signal(harness, site)`: the deferred calls run next
Return(l, site) ==
    [l EXCEPT !.ret = Signal(l.harness, site),
              !.pc = IF l.defers = <<>> THEN "returned" ELSE "defer"]

Log(l, call, ok) == [l EXCEPT !.calls = Append(@, <<call, ok>>)]

Defer(l, call) == [l EXCEPT !.defers = Append(@, call)]

Created(l, fsys, p) == [l EXCEPT !.created = IF p \in fsys THEN @ ELSE @ \cup {p}]

Set(w, l) == inv' = [inv EXCEPT ![w] = l]

At(w, h, at) == inv[w].harness = h /\ inv[w].pc = at

\* the fuzzing driver calls harness h with a buffer of length n
Start(w) ==
    /\ inv[w].pc \in {"idle", "returned"}
    /\ \E h \in Harnesses : \E n \in DataLens(h) :
          Set(w, NewInvocation(h, n))
    /\ UNCHANGED <<fs, logLevel>>

\* a deferred call runs, the last registered first.  The result of a deferred
\* call is dropped; os.RemoveAll is taken to remove the path, Close and Destroy
\* to leave the modelled paths alone.
RunDefer(w) ==
    LET l == inv[w]
        d == l.defers[Len(l.defers)]
        rest == SubSeq(l.defers, 1, Len(l.defers) - 1)
        after == [Log(l, d[1] \o "(" \o d[2] \o ")", TRUE)
                    EXCEPT !.defers = rest,
                           !.pc = IF rest = <<>> THEN "returned" ELSE "defer"]
    IN  /\ l.pc = "defer"
        /\ fs' = IF d[1] = "RemoveAll" THEN RemoveAll(fs, d[2]) ELSE fs
        /\ Set(w, after)
        /\ UNCHANGED logLevel

\* if len(data) < minimum { return -1 }
CheckLen(l, next) ==
    IF TooShort(l.harness, l.dataLen)
    THEN Return(l, "checkLen")
    ELSE [l EXCEPT !.pc = next]

----------------------------------------------------------------------------
(* FuzzInit *)

InitCheckLen(w) ==
    /\ At(w, "FuzzInit", "checkLen")
    /\ Set(w, CheckLen(inv[w], "openPipe"))
    /\ UNCHANGED <<fs, logLevel>>

\* os.OpenFile(path, O_RDWR|O_CREATE, 0755) in FuzzInit, with its two defers
InitOpen(w, at, path, next) ==
    LET call == "OpenFile(" \o path \o ")" IN
    /\ At(w, "FuzzInit", at)
    /\ \/ /\ CanCreate(fs, path)
          /\ fs' = fs \cup {path}
          /\ Set(w, [Defer(Defer(Created(Log(inv[w], call, TRUE), fs, path),
                                 <<"Close", path>>),
                           <<"RemoveAll", path>>)
                       EXCEPT !.pc = next])
       \/ /\ fs' = fs
          /\ Set(w, Return(Log(inv[w], call, FALSE), "OpenFile"))
    /\ UNCHANGED logLevel

InitOpenPipe(w) == InitOpen(w, "openPipe", PipePath, "openConsole")

InitOpenConsole(w) == InitOpen(w, "openConsole", ConsolePath, "generate")

\* c.GenerateStruct(config): its error is not looked at
InitGenerate(w) ==
    /\ At(w, "FuzzInit", "generate")
    /\ \E ok \in BOOLEAN :
          Set(w, [Log(inv[w], "GenerateStruct", ok) EXCEPT !.pc = "callInit"])
    /\ UNCHANGED <<fs, logLevel>>

\* _ = l.Init(); return 1
InitCallInit(w) ==
    /\ At(w, "FuzzInit", "callInit")
    /\ \E ok \in Discarded :
          Set(w, Return(Log(inv[w], "Init", ok), "done"))
    /\ UNCHANGED <<fs, logLevel>>

----------------------------------------------------------------------------
(* FuzzStateApi *)

\* logrus.SetLevel(logrus.PanicLevel), then the length check
StateApiCheckLen(w) ==
    /\ At(w, "FuzzStateApi", "checkLen")
    /\ logLevel' = "PanicLevel"
    /\ Set(w, CheckLen(inv[w], "newTestRoot"))
    /\ UNCHANGED fs

\* root, err := newTestRoot(); defer os.RemoveAll(root)
StateApiNewTestRoot(w) ==
    LET call == "MkdirAll(" \o TestRoot \o ")" IN
    /\ At(w, "FuzzStateApi", "newTestRoot")
    /\ \/ /\ fs' = MkdirAll(fs, TestRoot)
          /\ Set(w, [Defer(Created(Log(inv[w], call, TRUE), fs, TestRoot),
                           <<"RemoveAll", TestRoot>>)
                       EXCEPT !.pc = "generate"])
       \/ /\ fs' = fs
          /\ Set(w, Return(Log(inv[w], call, FALSE), "newTestRoot"))
    /\ UNCHANGED logLevel

\* c.GenerateStruct(config), its error not looked at; config.Rootfs = root
StateApiGenerate(w) ==
    /\ At(w, "FuzzStateApi", "generate")
    /\ \E ok \in BOOLEAN : \E nss \in GenNamespaces : \E par \in GenParents :
          Set(w, [Log(inv[w], "GenerateStruct", ok)
                    EXCEPT !.namespaces = nss, !.parent = par,
                           !.rootfs = TestRoot, !.pc = "getInt"])
    /\ UNCHANGED <<fs, logLevel>>

\* ns, err := c.GetInt() and the three-way choice of config.Namespaces
StateApiGetInt(w) ==
    /\ At(w, "FuzzStateApi", "getInt")
    /\ \/ \E n \in Ints :
             Set(w, [Log(inv[w], "GetInt", TRUE)
                       EXCEPT !.ns = n, !.namespaces = SelectNamespaces(n),
                              !.pc = "getString"])
       \/ Set(w, Return(Log(inv[w], "GetInt", FALSE), "GetInt"))
    /\ UNCHANGED <<fs, logLevel>>

\* containerName, err := c.GetString()
StateApiGetString(w) ==
    /\ At(w, "FuzzStateApi", "getString")
    /\ \/ Set(w, [Log(inv[w], "GetString", TRUE) EXCEPT !.pc = "create"])
       \/ Set(w, Return(Log(inv[w], "GetString", FALSE), "GetString"))
    /\ UNCHANGED <<fs, logLevel>>

\* newContainerWithName(containerName, root, config); defer container.Destroy()
StateApiCreate(w) ==
    LET l == inv[w]
        drv == Driver(l.parent)
        new1 == Log(l, "New(Cgroupfs)", TRUE)
        new2 == IF drv = "SystemdCgroups"
                THEN Log(new1, "New(SystemdCgroups)", TRUE) ELSE new1
    IN
    /\ At(w, "FuzzStateApi", "create")
    /\ \/ Set(w, Return(Log(l, "New(Cgroupfs)", FALSE), "Create"))
       \/ /\ drv = "SystemdCgroups"
          /\ Set(w, Return(Log(new1, "New(SystemdCgroups)", FALSE), "Create"))
       \/ Set(w, Return(Log(new2, "Create", FALSE), "Create"))
       \/ Set(w, [Defer(Log(new2, "Create", TRUE), <<"Destroy", "container">>)
                    EXCEPT !.driver = drv, !.pc = QueryOrder[1]])
    /\ UNCHANGED <<fs, logLevel>>

\* _, _ = container.State() ... container.Processes(); return 1
StateApiQuery(w) ==
    /\ inv[w].harness = "FuzzStateApi"
    /\ \E i \in 1..Len(QueryOrder) : \E ok \in Discarded :
          /\ inv[w].pc = QueryOrder[i]
          /\ Set(w, IF i < Len(QueryOrder)
                    THEN [Log(inv[w], QueryOrder[i], ok) EXCEPT !.pc = QueryOrder[i + 1]]
                    ELSE Return(Log(inv[w], QueryOrder[i], ok), "done"))
    /\ UNCHANGED <<fs, logLevel>>

----------------------------------------------------------------------------
(* FuzzFactory *)

FactoryCheckLen(w) ==
    /\ At(w, "FuzzFactory", "checkLen")
    /\ Set(w, CheckLen(inv[w], "mkdirRoot"))
    /\ UNCHANGED <<fs, logLevel>>

\* err := os.MkdirAll(dir, 0777); if err != nil { return -1 }
FactoryMkdir(w, at, dir, next) ==
    LET call == "MkdirAll(" \o dir \o ")" IN
    /\ At(w, "FuzzFactory", at)
    /\ \/ /\ fs' = MkdirAll(fs, dir)
          /\ Set(w, [Log(inv[w], call, TRUE) EXCEPT !.pc = next])
       \/ /\ fs' = fs
          /\ Set(w, Return(Log(inv[w], call, FALSE), "MkdirAll"))
    /\ UNCHANGED logLevel

FactoryMkdirRoot(w) == FactoryMkdir(w, "mkdirRoot", FuzzRoot, "mkdirFuzz")

FactoryMkdirFuzz(w) == FactoryMkdir(w, "mkdirFuzz", FuzzDir, FieldOrder[1])

\* the five extractions: c.GetString() four times, c.GetInt() for pid
FactoryGetField(w) ==
    /\ inv[w].harness = "FuzzFactory"
    /\ \E i \in 1..Len(FieldOrder) :
          LET f == FieldOrder[i]
              call == IF f = "pid" THEN "GetInt" ELSE "GetString"
              next == IF i < Len(FieldOrder) THEN FieldOrder[i + 1] ELSE "filter"
          IN  /\ inv[w].pc = f
              /\ \/ \E n \in (IF f \in {"status", "pid"} THEN {0} ELSE StrLens) :
                       Set(w, [Log(inv[w], call, TRUE)
                                 EXCEPT !.pc = next,
                                        !.lens = IF f \in DOMAIN NoLens
                                                 THEN [@ EXCEPT ![f] = n] ELSE @])
                 \/ Set(w, Return(Log(inv[w], call, FALSE), call))
    /\ UNCHANGED <<fs, logLevel>>

\* the length filter, then json.Marshal(&fs)
FactoryFilter(w) ==
    /\ At(w, "FuzzFactory", "filter")
    /\ IF LenFilter(inv[w].lens)
       THEN Set(w, Return(inv[w], "filter"))
       ELSE \/ Set(w, [Log(inv[w], "Marshal", TRUE) EXCEPT !.pc = "createFiles"])
            \/ Set(w, Return(Log(inv[w], "Marshal", FALSE), "Marshal"))
    /\ UNCHANGED <<fs, logLevel>>

\* createFiles(state_json, b), and on success defer os.RemoveAll(state_json_path)
FactoryCreateFiles(w) ==
    LET l == inv[w]
        opened == Created(Log(l, "OpenFile(" \o StateJsonPath \o ")", TRUE),
                          fs, StateJsonPath)
    IN
    /\ At(w, "FuzzFactory", "createFiles")
    /\ \/ /\ fs' = fs
          /\ Set(w, Return(Log(l, "OpenFile(" \o StateJsonPath \o ")", FALSE),
                           "createFiles"))
       \/ /\ CanCreate(fs, StateJsonPath)
          /\ fs' = fs \cup {StateJsonPath}
          /\ Set(w, Return(Log(opened, "Write", FALSE), "createFiles"))
       \/ /\ CanCreate(fs, StateJsonPath)
          /\ fs' = fs \cup {StateJsonPath}
          /\ Set(w, [Defer(Log(opened, "Write", TRUE),
                           <<"RemoveAll", FactoryCleanupPath>>)
                       EXCEPT !.pc = "secureJoin"])
    /\ UNCHANGED logLevel

\* securejoin.SecureJoin("/tmp/fuzz-root/fuzz", stateFilename)
FactorySecureJoin(w) ==
    /\ At(w, "FuzzFactory", "secureJoin")
    /\ \/ Set(w, [Log(inv[w], "SecureJoin", TRUE) EXCEPT !.pc = "open"])
       \/ Set(w, Return(Log(inv[w], "SecureJoin", FALSE), "SecureJoin"))
    /\ UNCHANGED <<fs, logLevel>>

\* f, err := os.Open(stateFilePath): only a missing file ends the run; defer f.Close()
FactoryOpen(w) ==
    LET call == "Open(" \o StateJsonPath \o ")" IN
    /\ At(w, "FuzzFactory", "open")
    /\ IF StateJsonPath \notin fs
       THEN Set(w, Return(Log(inv[w], call, FALSE), "Open"))
       ELSE \E ok \in BOOLEAN :
               Set(w, [Defer(Log(inv[w], call, ok), <<"Close", StateJsonPath>>)
                         EXCEPT !.pc = "load"])
    /\ UNCHANGED <<fs, logLevel>>

\* _, _ = factory.Load("fuzz"); return 1
FactoryLoad(w) ==
    /\ At(w, "FuzzFactory", "load")
    /\ \E ok \in Discarded :
          Set(w, Return(Log(inv[w], "Load", ok), "done"))
    /\ UNCHANGED <<fs, logLevel>>

----------------------------------------------------------------------------
(* Fuzz (package devices) *)

\* str, err := c.GetString()
FuzzGetString(w) ==
    /\ inv[w].harness = "Fuzz"
    /\ \E i \in {"1", "2"} :
          /\ inv[w].pc = "getString" \o i
          /\ \/ Set(w, [Log(inv[w], "GetString", TRUE) EXCEPT !.pc = "parse" \o i])
             \/ Set(w, Return(Log(inv[w], "GetString", FALSE), "GetString"))
    /\ UNCHANGED <<fs, logLevel>>

\* emu, err := EmulatorFromList(strings.NewReader(str))
FuzzEmulatorFromList(w) ==
    /\ inv[w].harness = "Fuzz"
    /\ \E i \in {"1", "2"} :
          /\ inv[w].pc = "parse" \o i
          /\ \/ Set(w, [Log(inv[w], "EmulatorFromList", TRUE)
                          EXCEPT !.pc = IF i = "1" THEN "getString2" ELSE "transition"])
             \/ Set(w, Return(Log(inv[w], "EmulatorFromList", FALSE),
                              "EmulatorFromList"))
    /\ UNCHANGED <<fs, logLevel>>

\* emu1.Transition(emu2); return 1
FuzzTransition(w) ==
    /\ At(w, "Fuzz", "transition")
    /\ \E ok \in Discarded :
          Set(w, Return(Log(inv[w], "Transition", ok), "done"))
    /\ UNCHANGED <<fs, logLevel>>

----------------------------------------------------------------------------

\* worker w takes its next step
Step(w) ==
        \/ Start(w)
        \/ RunDefer(w)
        \/ InitCheckLen(w)
        \/ InitOpenPipe(w)
        \/ InitOpenConsole(w)
        \/ InitGenerate(w)
        \/ InitCallInit(w)
        \/ StateApiCheckLen(w)
        \/ StateApiNewTestRoot(w)
        \/ StateApiGenerate(w)
        \/ StateApiGetInt(w)
        \/ StateApiGetString(w)
        \/ StateApiCreate(w)
        \/ StateApiQuery(w)
        \/ FactoryCheckLen(w)
        \/ FactoryMkdirRoot(w)
        \/ FactoryMkdirFuzz(w)
        \/ FactoryGetField(w)
        \/ FactoryFilter(w)
        \/ FactoryCreateFiles(w)
        \/ FactorySecureJoin(w)
        \/ FactoryOpen(w)
        \/ FactoryLoad(w)
        \/ FuzzGetString(w)
        \/ FuzzEmulatorFromList(w)
        \/ FuzzTransition(w)

\* one worker: the harnesses run one invocation after the other
Next == \E w \in {"w1"} : Step(w)

\* two workers: two invocations run concurrently
NextConc == \E w \in {"w1", "w2"} : Step(w)

Spec == Init1 /\ [][Next]_vars

SpecConc == InitConc /\ [][NextConc]_vars

----------------------------------------------------------------------------
(* Reading an invocation *)

Range(q) == {q[i] : i \in 1..Len(q)}

\* the names of the calls made, in order
Names(l) == [i \in 1..Len(l.calls) |-> l.calls[i][1]]

Called(l, c) == c \in Range(Names(l))

\* the return value of the invocation is set
Finished(l) == l.pc \in {"defer", "returned"}

Extractions == {"GenerateStruct", "GetString", "GetInt"}

Queries == {"State", "Stats", "OCIState", "Processes"}

Targets == {"Init", "Create", "Load", "Transition"} \cup Queries

\* some extraction of the consumer returned an error
Exhausted(l) == \E c \in Extractions : <<c, FALSE>> \in Range(l.calls)

\* the scratch paths the invocation holds: provisioned, release still deferred
Held(l) == {d[2] : d \in {e \in Range(l.defers) : e[1] = "RemoveAll"}}

Abs(n) == IF n < 0 THEN 0 - n ELSE n

Divides(d, n) == \E k \in (0 - Abs(n))..Abs(n) : n = d * k

IsPrefix(p, q) == Len(p) <= Len(q) /\ SubSeq(q, 1, Len(p)) = p

----------------------------------------------------------------------------
(* The claims *)

\* C1: a harness given a buffer shorter than its minimum (FuzzInit 5,
\* FuzzStateApi 4, FuzzFactory 20) returns -1 and the call, which is the one
\* step of the length check, makes no external call and leaves the
\* filesystem as it was.
C1_ShortInputRejected ==
    [][\A w \in DOMAIN inv :
          LET l == inv[w]
              m == CASE l.harness = "FuzzInit" -> 5
                     [] l.harness = "FuzzStateApi" -> 4
                     [] l.harness = "FuzzFactory" -> 20
                     [] OTHER -> 0
          IN  (l.pc = "checkLen" /\ l.dataLen < m /\ inv'[w] # l)
              => /\ fs' = fs
                 /\ inv'[w].pc = "returned"
                 /\ inv'[w].ret = -1
                 /\ inv'[w].calls = <<>>
                 /\ inv'[w].created = {}]_vars

\* C1 witness: FuzzFactory has rejected a 19-byte buffer
C1_Witness ==
    \E w \in DOMAIN inv :
        /\ inv[w].harness = "FuzzFactory" /\ inv[w].dataLen = 19
        /\ inv[w].pc = "returned" /\ inv[w].ret = -1

\* C2: after FuzzInit or FuzzFactory has returned, with any signal, none of
\* the scratch files the invocation created is left on disk.
C2_CleanupInvariant ==
    \A w \in DOMAIN inv :
        (inv[w].harness \in {"FuzzInit", "FuzzFactory"} /\ inv[w].pc = "returned")
        => inv[w].created \cap fs = {}

\* C3: while an invocation holds a scratch path (between provisioning it and
\* the deferred removal), the path exists and no other invocation holds it.
C3_ExclusiveScratch ==
    \A w \in DOMAIN inv : \A p \in Held(inv[w]) :
        /\ p \in fs
        /\ \A v \in DOMAIN inv \ {w} : p \notin Held(inv[v])

\* C4: once FuzzStateApi has its selector n, config.Namespaces is UTS-only when
\* 3 divides n, else mount-only when 4 divides n, else empty, whatever
\* GenerateStruct had put there.
C4_NamespaceSelection ==
    \A w \in DOMAIN inv :
        LET l == inv[w] IN
        (l.harness = "FuzzStateApi" /\ <<"GetInt", TRUE>> \in Range(l.calls))
        => l.namespaces = (IF Divides(3, l.ns) THEN <<"NEWUTS">>
                           ELSE IF Divides(4, l.ns) THEN <<"NEWNS">>
                           ELSE <<>>)

\* C4 witness: the selector -12, divisible by 3 and by 4, chose UTS-only
C4_Witness ==
    \E w \in DOMAIN inv :
        /\ inv[w].harness = "FuzzStateApi"
        /\ <<"GetInt", TRUE>> \in Range(inv[w].calls)
        /\ inv[w].ns = 0 - 12
        /\ inv[w].namespaces = <<"NEWUTS">>

\* C5: an invocation in which an extraction (GenerateStruct, GetString, GetInt)
\* failed never calls its target.
C5_ExhaustionAbandons ==
    \A w \in DOMAIN inv :
        Exhausted(inv[w]) => \A c \in Targets : ~Called(inv[w], c)

\* the calls into the target a harness makes when it runs to the end
TargetCalls(h) ==
    CASE h = "FuzzInit" -> {"Init"}
      [] h = "FuzzStateApi" -> Queries
      [] h = "FuzzFactory" -> {"Load"}
      [] h = "Fuzz" -> {"Transition"}
      [] OTHER -> {}

\* C6: a harness returns 1 exactly when it made all its calls into the target,
\* whatever they returned; a return before the target is called gives -1 or 0;
\* nothing else is returned.
C6_SignalMeaning ==
    \A w \in DOMAIN inv :
        LET l == inv[w] IN
        (l.harness \in Harnesses /\ Finished(l))
        => /\ l.ret \in {-1, 0, 1}
           /\ l.ret = 1 <=> \A c \in TargetCalls(l.harness) : Called(l, c)
           /\ (\A c \in TargetCalls(l.harness) : ~Called(l, c)) => l.ret \in {-1, 0}

\* C6 witness: Init returned an error and FuzzInit returned 1
C6_Witness ==
    \E w \in DOMAIN inv :
        /\ inv[w].harness = "FuzzInit" /\ inv[w].pc = "returned"
        /\ <<"Init", FALSE>> \in Range(inv[w].calls)
        /\ inv[w].ret = 1

\* C7: the sandbox root and the work directory, once created, are never
\* removed; a FuzzFactory run whose two MkdirAll calls succeeded has both
\* directories on disk; and a step of FuzzFactory removes no path but the
\* state file.
C7_SandboxKept ==
    [][\A w \in DOMAIN inv :
          LET l == inv[w]
              n == inv'[w]
          IN  /\ ({FuzzRoot, FuzzDir} \cap fs) \subseteq fs'
              /\ (l.harness = "FuzzFactory" /\ n # l /\ l.pc # "returned")
                 => (fs \ fs') \subseteq {StateJsonPath}
              /\ (/\ n.harness = "FuzzFactory"
                  /\ <<"MkdirAll(" \o FuzzRoot \o ")", TRUE>> \in Range(n.calls)
                  /\ <<"MkdirAll(" \o FuzzDir \o ")", TRUE>> \in Range(n.calls))
                 => {FuzzRoot, FuzzDir} \subseteq fs']_vars

\* C7 witness: a full FuzzFactory run has removed its state file and left
\* both directories
C7_Witness ==
    \E w \in DOMAIN inv :
        /\ inv[w].harness = "FuzzFactory" /\ inv[w].pc = "returned"
        /\ inv[w].ret = 1
        /\ Called(inv[w], "RemoveAll(" \o StateJsonPath \o ")")
        /\ StateJsonPath \notin fs
        /\ {FuzzRoot, FuzzDir} \subseteq fs

\* what FuzzStateApi calls after a successful Create, up to its return
AfterCreate ==
    <<"State", "Stats", "OCIState", "Processes",
      "Destroy(container)", "RemoveAll(" \o TestRoot \o ")">>

\* C9: after a successful Create, FuzzStateApi calls State, Stats, OCIState,
\* Processes once each in this order whatever they return, then Destroy once,
\* then removes the root, and then returns; without a successful Create it
\* calls no query and no Destroy.
C9_QueriesThenDestroy ==
    \A w \in DOMAIN inv :
        LET l == inv[w]
            names == Names(l)
            made == {i \in 1..Len(l.calls) : l.calls[i] = <<"Create", TRUE>>}
        IN  l.harness = "FuzzStateApi"
            => IF made = {}
               THEN \A c \in Queries \cup {"Destroy(container)"} : ~Called(l, c)
               ELSE \A i \in made :
                       LET rest == SubSeq(names, i + 1, Len(names)) IN
                       /\ IsPrefix(rest, AfterCreate)
                       /\ l.pc = "returned" => rest = AfterCreate

\* C9 witness: State returned an error and the run still went on to Destroy
\* and to the removal of the root
C9_Witness ==
    \E w \in DOMAIN inv :
        /\ inv[w].harness = "FuzzStateApi" /\ inv[w].pc = "returned"
        /\ <<"State", FALSE>> \in Range(inv[w].calls)
        /\ Called(inv[w], "Destroy(container)")

\* the extractions of the invocation that succeeded
Extracted(l) ==
    SelectSeq(l.calls, LAMBDA c : c[1] \in {"GetString", "GetInt"} /\ c[2])

\* C10: when an extracted version, identifier or bundle path is shorter than
\* 5, FuzzFactory returns 0 without creating the state file or calling Load;
\* and Load is called only after five successful extractions, with the three
\* strings of length 5 or more, the state record written and SecureJoin
\* succeeded.
C10_FilterBeforeLoad ==
    \A w \in DOMAIN inv :
        LET l == inv[w]
            short == l.lens.ociVersion < 5 \/ l.lens.id < 5 \/ l.lens.bundle < 5
        IN  l.harness = "FuzzFactory"
            => /\ (Len(Extracted(l)) = 5 /\ short /\ l.pc # "filter")
                  => /\ Finished(l) /\ l.ret = 0
                     /\ ~Called(l, "OpenFile(" \o StateJsonPath \o ")")
                     /\ ~Called(l, "Load")
                     /\ StateJsonPath \notin l.created
               /\ Called(l, "Load")
                  => /\ Len(Extracted(l)) = 5 /\ ~short
                     /\ <<"Write", TRUE>> \in Range(l.calls)
                     /\ <<"SecureJoin", TRUE>> \in Range(l.calls)

\* C10 witness: Load was called with a bundle path of exactly 5 characters
C10_Witness ==
    \E w \in DOMAIN inv :
        /\ inv[w].harness = "FuzzFactory"
        /\ Called(inv[w], "Load")
        /\ inv[w].lens.bundle = 5

=============================================================================
